---- MODULE Spec2Model ----
(***************************************************************************)
(* A model of the numeric core of ralg: the power-of-two helper            *)
(* (math/misc.rs), the dense-coefficient polynomial (math/poly.rs), the     *)
(* complex numbers (math/complex.rs) and the recursive Cooley-Tukey FFT     *)
(* (math/fft.rs).                                                           *)
(*                                                                         *)
(* Machine integers (usize, u32) are modelled as the set of positions of    *)
(* their one bits, so that the 64-bit values the code works with            *)
(* (0x8000000000000000, usize::MAX) are represented exactly.                *)
(* Floating point values are modelled by exact real numbers of the field    *)
(* generated by the cosines of rational multiples of 2*pi: the rounding of  *)
(* f32 is abstracted away, the algebra of the transform is kept.            *)
(***************************************************************************)
EXTENDS Integers, Sequences, FiniteSets, TLC

VARIABLES
    overflow_checks, \* build profile: TRUE = arithmetic overflow panics (debug)
    np_n,            \* next_power_of_2: the argument (usize, as a bit set)
    np_out,          \* next_power_of_2: the outcome
    np_pc,           \* "idle" | "done"
    p, q,            \* polynomial operands (coefficient sequences)
    res,             \* result of the last polynomial operator
    op,              \* "none" | "add" | "sub" | "mul"
    fft_p,           \* the polynomial handed to fft (coefficient sequence)
    fft_pc,          \* "idle" | "running" | "done" | "overflow"
    stack,           \* call stack of fft_recursive activations
    fft_out,         \* the sequence fft returned
    m_orig,          \* Polynomial::new(m_orig): the coefficients at construction
    m_coeff,         \* the coefficients of that polynomial now
    m_prev,          \* its coefficients before the last method call
    m_op,            \* the last method called on it ("new" before any)
    m_prevop,        \* the method called before the last one
    m_n,             \* the usize argument of the last call (set_degree_bound)
    m_x,             \* the T argument of the last call (eval)
    m_usize,         \* the usize the last call returned (degree, degree_bound)
    m_val,           \* the T the last call returned (eval)
    z1, z2,          \* complex operands
    z_res,           \* result of the last complex operator
    z_op             \* "none" | "add" | "sub" | "mul"

vars == <<overflow_checks, np_n, np_out, np_pc, p, q, res, op,
          fft_p, fft_pc, stack, fft_out,
          m_orig, m_coeff, m_prev, m_op, m_prevop, m_n, m_x, m_usize, m_val,
          z1, z2, z_res, z_op>>

npVars == <<np_n, np_out, np_pc>>
polyVars == <<p, q, res, op>>
fftVars == <<fft_p, fft_pc, stack, fft_out>>
mutVars == <<m_orig, m_coeff, m_prev, m_op, m_prevop, m_n, m_x, m_usize, m_val>>
cxVars == <<z1, z2, z_res, z_op>>

(***************************************************************************)
(* Bounds of the model.                                                    *)
(***************************************************************************)
\* longest coefficient sequence handed to fft
MaxLen == 5
\* longest operand of the polynomial operators
MaxPolyLen == 3
\* activations of fft_recursive the stack can hold before it is exhausted
MaxDepth == 6
\* integers are converted to and from bit sets below this many bits
SmallBits == 12
\* largest of the small arguments tried on next_power_of_2
MaxSmallN == 40
\* largest degree bound asked of set_degree_bound
MaxDegreeBound == 4
\* largest absolute value of the real and imaginary parts of complex operands
MaxPart == 2

(***************************************************************************)
(* Machine integers as bit sets.                                           *)
(***************************************************************************)
\* width of usize (the code's constant 0x8000000000000000 has bit 63 set)
UsizeBits == 64
\* width of u32, the type of leading_zeros()
U32Bits == 32

RECURSIVE Pow2(_)
Pow2(k) == IF k = 0 THEN 1 ELSE 2 * Pow2(k - 1)

SetMax(S) == CHOOSE x \in S : \A y \in S : y <= x
SetMin(S) == CHOOSE x \in S : \A y \in S : x <= y

\* the bit set of a small natural number
Bits(n) == {i \in 0..(SmallBits - 1) : (n \div Pow2(i)) % 2 = 1}

\* the value of a bit set that fits the model's small integers
RECURSIVE Val(_)
Val(b) == IF b = {} THEN 0
          ELSE LET m == SetMax(b) IN Pow2(m) + Val(b \ {m})

\* a <= b on bit sets: the highest bit they differ in belongs to b
Leq(a, b) == \/ a = b
             \/ SetMax((a \ b) \cup (b \ a)) \in b

\* x - 1 of a w-bit integer, wrapping: 0 - 1 is all ones
wrapping_dec(b, w) ==
    IF b = {} THEN 0..(w - 1)
    ELSE LET m == SetMin(b) IN (b \ {m}) \cup {i \in 0..(w - 1) : i < m}

\* usize::MAX
USIZE_MAX == 0..(UsizeBits - 1)

\* u64::leading_zeros
leading_zeros(b) == IF b = {} THEN UsizeBits ELSE (UsizeBits - 1) - SetMax(b)

\* x >> k
shr(b, k) == {i - k : i \in {j \in b : j >= k}}

Ok(v) == [panicked |-> FALSE, val |-> v]
Panic == [panicked |-> TRUE, val |-> {}]

\* math/misc.rs: next_power_of_2. `leading_zeros() - 1` is a u32 subtraction:
\* with overflow checks it panics on 0 - 1, without them it wraps to u32::MAX
\* and the shift amount is masked to the low 6 bits.
next_power_of_2(n) ==
    IF n = {} THEN Ok({0})
    ELSE IF (n \cap wrapping_dec(n, UsizeBits)) = {} THEN Ok(n)
    ELSE LET lz  == Bits(leading_zeros(n))
             amt == wrapping_dec(lz, U32Bits)
         IN IF lz = {} /\ overflow_checks THEN Panic
            ELSE Ok(shr({UsizeBits - 1}, Val(amt \cap Bits(UsizeBits - 1))))

(***************************************************************************)
(* Specification of next_power_of_2 alone: the argument is any usize with   *)
(* at most two one bits, or any small number.                               *)
(***************************************************************************)
NpInputs == {Bits(n) : n \in 0..MaxSmallN}
            \cup {{i, j} : i, j \in 0..(UsizeBits - 1)}

IdleNP == /\ np_n = {} /\ np_out = Ok({}) /\ np_pc = "idle"
IdlePoly == /\ p = <<>> /\ q = <<>> /\ res = <<>> /\ op = "none"
IdleFFT == /\ fft_p = <<>> /\ fft_pc = "idle" /\ stack = <<>> /\ fft_out = <<>>
IdleMut == /\ m_orig = <<>> /\ m_coeff = <<>> /\ m_prev = <<>>
           /\ m_op = "new" /\ m_prevop = "new"
           /\ m_n = {} /\ m_x = 0 /\ m_usize = {} /\ m_val = 0
IdleCx == /\ z1 = [re |-> 0, im |-> 0] /\ z2 = [re |-> 0, im |-> 0]
          /\ z_res = [re |-> 0, im |-> 0] /\ z_op = "none"

InitNP == /\ overflow_checks \in BOOLEAN
          /\ np_n \in NpInputs
          /\ np_out = Ok({})
          /\ np_pc = "idle"
          /\ IdlePoly
          /\ IdleFFT
          /\ IdleMut
          /\ IdleCx

NextPowerOf2 ==
    /\ np_pc = "idle"
    /\ np_out' = next_power_of_2(np_n)
    /\ np_pc' = "done"
    /\ UNCHANGED <<mutVars, cxVars, overflow_checks, np_n, polyVars, fftVars>>

NextNP == NextPowerOf2

SpecNP == InitNP /\ [][NextNP]_vars

(***************************************************************************)
(* math/poly.rs: Polynomial<T>. A polynomial is its coefficient sequence    *)
(* `coeff` (index i of the code is index i + 1 here); T is modelled by the  *)
(* integers.                                                                *)
(***************************************************************************)
Max2(a, b) == IF a >= b THEN a ELSE b

\* vec![T::zero(); n]
Zeros(n) == [i \in 1..n |-> 0]

\* add with zip in place of zip_longest: only the common indices are written
Polynomial_add_zip(self, rhs) ==
    [idx \in 1..Max2(Len(self), Len(rhs)) |->
        IF idx <= Len(self) /\ idx <= Len(rhs) THEN self[idx] + rhs[idx]
        ELSE 0]

\* add without the Right(b) arm: the tail of a longer rhs is left at zero
Polynomial_add_left(self, rhs) ==
    [idx \in 1..Max2(Len(self), Len(rhs)) |->
        IF idx <= Len(self) /\ idx <= Len(rhs) THEN self[idx] + rhs[idx]
        ELSE IF idx <= Len(self) THEN self[idx]
        ELSE 0]

\* impl Add for Polynomial: zip_longest, Both(a, b) => a + b, Left(a) => a,
\* Right(b) => b
Polynomial_add(self, rhs) ==
    [idx \in 1..Max2(Len(self), Len(rhs)) |->
        IF idx <= Len(self) /\ idx <= Len(rhs) THEN self[idx] + rhs[idx]
        ELSE IF idx <= Len(self) THEN self[idx]
        ELSE rhs[idx]]

\* impl Sub for Polynomial: zip_longest, Both(a, b) => a - b, Left(a) => a,
\* Right(b) => b
Polynomial_sub(self, rhs) ==
    [idx \in 1..Max2(Len(self), Len(rhs)) |->
        IF idx <= Len(self) /\ idx <= Len(rhs) THEN self[idx] - rhs[idx]
        ELSE IF idx <= Len(self) THEN self[idx]
        ELSE rhs[idx]]

\* the two nested loops of mul: for i in 0..ls.0 { for j in 0..ls.1 { .. } }
RECURSIVE MulLoop(_, _, _, _, _)
MulLoop(coeff, self, rhs, i, j) ==
    IF i >= Len(self) THEN coeff
    ELSE IF j >= Len(rhs) THEN MulLoop(coeff, self, rhs, i + 1, 0)
    ELSE MulLoop([coeff EXCEPT ![i + j + 1] = @ + self[i + 1] * rhs[j + 1]],
                 self, rhs, i, j + 1)

\* mul whose loop body assigns the product in place of accumulating it
RECURSIVE MulLoopAssign(_, _, _, _, _)
MulLoopAssign(coeff, self, rhs, i, j) ==
    IF i >= Len(self) THEN coeff
    ELSE IF j >= Len(rhs) THEN MulLoopAssign(coeff, self, rhs, i + 1, 0)
    ELSE MulLoopAssign([coeff EXCEPT ![i + j + 1] = self[i + 1] * rhs[j + 1]],
                       self, rhs, i, j + 1)

Polynomial_mul_assign(self, rhs) ==
    IF Len(self) * Len(rhs) = 0 THEN <<>>
    ELSE MulLoopAssign(Zeros(Len(self) + Len(rhs) - 1), self, rhs, 0, 0)

\* mul whose inner loop stops one short: for j in 0..ls.1 - 1
Polynomial_mul_short(self, rhs) ==
    IF Len(self) * Len(rhs) = 0 THEN <<>>
    ELSE MulLoop(Zeros(Len(self) + Len(rhs) - 1), self,
                 SubSeq(rhs, 1, Len(rhs) - 1), 0, 0)

\* mul whose emptiness test adds the lengths in place of multiplying them
Polynomial_mul_sum(self, rhs) ==
    IF Len(self) + Len(rhs) = 0 THEN <<>>
    ELSE MulLoop(Zeros(Len(self) + Len(rhs) - 1), self, rhs, 0, 0)

\* mul that returns the bare zero-filled vector of an operand of length one
Polynomial_mul_one(self, rhs) ==
    IF Len(self) * Len(rhs) = 0 THEN <<>>
    ELSE IF Len(self) = 1 THEN Zeros(Len(rhs))
    ELSE MulLoop(Zeros(Len(self) + Len(rhs) - 1), self, rhs, 0, 0)

\* impl Mul for Polynomial
Polynomial_mul(self, rhs) ==
    IF Len(self) * Len(rhs) = 0 THEN <<>>
    ELSE MulLoop(Zeros(Len(self) + Len(rhs) - 1), self, rhs, 0, 0)

(***************************************************************************)
(* Specification of the polynomial operators: two operands are drawn and    *)
(* one operator is applied to them.                                         *)
(***************************************************************************)
PolyCoeffs == {-1, 0, 2}

SeqsUpTo(n, S) == UNION {[1..k -> S] : k \in 0..n}

\* the operands of the repository's tests (test::add, test::mul)
TestOperands == {<<0, 3, 5>>, <<4, 7, 8>>, <<5, 0, 10, 6>>, <<1, 2, 4>>,
                 <<5, -2, 17>>}

PolyInputs == SeqsUpTo(MaxPolyLen, PolyCoeffs)

InitPoly == /\ overflow_checks = TRUE
            /\ IdleNP
            /\ \/ p \in PolyInputs /\ q \in PolyInputs
               \/ p \in TestOperands /\ q \in TestOperands
            /\ res = <<>>
            /\ op = "none"
            /\ IdleFFT
            /\ IdleMut
            /\ IdleCx

Add == /\ op = "none"
       /\ res' = Polynomial_add(p, q)
       /\ op' = "add"
       /\ UNCHANGED <<mutVars, cxVars, overflow_checks, npVars, p, q, fftVars>>

Sub == /\ op = "none"
       /\ res' = Polynomial_sub(p, q)
       /\ op' = "sub"
       /\ UNCHANGED <<mutVars, cxVars, overflow_checks, npVars, p, q, fftVars>>

Mul == /\ op = "none"
       /\ res' = Polynomial_mul(p, q)
       /\ op' = "mul"
       /\ UNCHANGED <<mutVars, cxVars, overflow_checks, npVars, p, q, fftVars>>

NextPoly == Add \/ Sub \/ Mul

SpecPoly == InitPoly /\ [][NextPoly]_vars

(***************************************************************************)
(* Exact real numbers standing for f32. A real is                           *)
(*     (sum over <<k, c>> in t of c * cos(2*pi*k / AngleDen)) / 2^e         *)
(* with keys k in 0..AngleDen/4 - 1, non-zero integers c, each key at most  *)
(* once, and e as small as possible. For angles that are multiples of       *)
(* 2*pi/2^m these cosines are linearly independent over the rationals, so   *)
(* the representation is unique and = is equality of real numbers.          *)
(* RNaN is f32::NAN.                                                        *)
(***************************************************************************)
RECURSIVE Gcd(_, _)
Gcd(a, b) == IF b = 0 THEN a ELSE Gcd(b, a % b)

RECURSIVE LcmUpTo(_)
LcmUpTo(n) == IF n <= 1 THEN 1
              ELSE LET l == LcmUpTo(n - 1) IN (l * n) \div Gcd(l, n)

RECURSIVE CeilPow2(_, _)
CeilPow2(n, acc) == IF acc >= n THEN acc ELSE CeilPow2(n, 2 * acc)

\* every angle 2*pi/n, n up to the largest transform size, and a quarter
\* turn, are multiples of 2*pi/AngleDen
AngleDen == 4 * LcmUpTo(CeilPow2(MaxLen, 1))

RZero == [e |-> 0, t |-> {}]
RNaN == [e |-> -1, t |-> {}]

\* cos(2*pi*k/AngleDen) as sign * cos(2*pi*key/AngleDen), key below AngleDen/4
Red(k) ==
    LET k1 == k % AngleDen
        k2 == IF 2 * k1 > AngleDen THEN AngleDen - k1 ELSE k1
    IN IF 4 * k2 = AngleDen THEN [sign |-> 0, key |-> 0]
       ELSE IF 4 * k2 > AngleDen THEN [sign |-> -1, key |-> (AngleDen \div 2) - k2]
       ELSE [sign |-> 1, key |-> k2]

Coef(t, k) == IF \E x \in t : x[1] = k
              THEN (CHOOSE x \in t : x[1] = k)[2]
              ELSE 0

Scale(t, c) == {<<x[1], c * x[2]>> : x \in t}

RECURSIVE RNorm(_, _)
RNorm(e, t) ==
    IF t = {} THEN RZero
    ELSE IF e > 0 /\ \A x \in t : x[2] % 2 = 0
         THEN RNorm(e - 1, {<<x[1], x[2] \div 2>> : x \in t})
    ELSE [e |-> e, t |-> t]

\* the integer c as a real
RInt(c) == IF c = 0 THEN RZero ELSE [e |-> 0, t |-> {<<0, c>>}]

\* f32 addition
RAdd(x, y) ==
    IF x = RNaN \/ y = RNaN THEN RNaN
    ELSE LET E  == Max2(x.e, y.e)
             tx == Scale(x.t, Pow2(E - x.e))
             ty == Scale(y.t, Pow2(E - y.e))
             ks == {a[1] : a \in tx \cup ty}
             t  == {<<k, Coef(tx, k) + Coef(ty, k)>> : k \in ks}
         IN RNorm(E, {a \in t : a[2] # 0})

RNeg(x) == IF x = RNaN THEN RNaN ELSE [e |-> x.e, t |-> Scale(x.t, -1)]

\* f32 subtraction
RSub(x, y) == RAdd(x, RNeg(y))

RECURSIVE SumC(_)
SumC(S) == IF S = {} THEN 0
           ELSE LET x == CHOOSE x \in S : TRUE IN x.c + SumC(S \ {x})

\* f32 multiplication: cos(a) * cos(b) = (cos(a + b) + cos(a - b)) / 2
RMul(x, y) ==
    IF x = RNaN \/ y = RNaN THEN RNaN
    ELSE LET prods == {[a |-> a, b |-> b, s |-> s,
                        r |-> Red(a[1] + s * b[1]),
                        c |-> Red(a[1] + s * b[1]).sign * a[2] * b[2]] :
                          a \in x.t, b \in y.t, s \in {1, -1}}
             ks == {pr.r.key : pr \in {pp \in prods : pp.r.sign # 0}}
             t  == {<<k, SumC({pr \in prods : pr.r.sign # 0 /\ pr.r.key = k})>> :
                      k \in ks}
         IN RNorm(x.e + y.e + 1, {a \in t : a[2] # 0})

\* cos(2*pi*k/n) and sin(2*pi*k/n); a division by n = 0 gives an infinite
\* angle, whose cosine and sine are NaN
RCos(k, n) ==
    IF n = 0 THEN RNaN
    ELSE LET r == Red(k * (AngleDen \div n))
         IN IF r.sign = 0 THEN RZero ELSE [e |-> 0, t |-> {<<r.key, r.sign>>}]

RSin(k, n) ==
    IF n = 0 THEN RNaN
    ELSE LET r == Red(k * (AngleDen \div n) - (AngleDen \div 4))
         IN IF r.sign = 0 THEN RZero ELSE [e |-> 0, t |-> {<<r.key, r.sign>>}]

(***************************************************************************)
(* math/complex.rs: Complex<f32>.                                           *)
(***************************************************************************)
Complex_new(re, im) == [re |-> re, im |-> im]

Complex_from_real(re) == Complex_new(re, RZero)

\* lifts the coefficients (integers here) to complex numbers, in order
Complex_from_real_vec(vec_re) ==
    [i \in 1..Len(vec_re) |-> Complex_from_real(RInt(vec_re[i]))]

\* the root with the angle of the f64 helper: theta = 2.0 * PI / n
Complex_root_of_unity_f64(n) == Complex_new(RCos(1, n), RSin(1, n))

\* theta = -2.0 * PI / n; Complex::new(theta.cos(), theta.sin())
Complex_root_of_unity(n) == Complex_new(RCos(-1, n), RSin(-1, n))

Complex_add(self, rhs) ==
    Complex_new(RAdd(self.re, rhs.re), RAdd(self.im, rhs.im))

\* sub with its operands exchanged
Complex_sub_swapped(self, rhs) ==
    Complex_new(RSub(rhs.re, self.re), RSub(rhs.im, self.im))

Complex_sub(self, rhs) ==
    Complex_new(RSub(self.re, rhs.re), RSub(self.im, rhs.im))

\* mul whose real part adds the two products
Complex_mul_plus(self, rhs) ==
    Complex_new(RAdd(RMul(self.re, rhs.re), RMul(self.im, rhs.im)),
                RAdd(RMul(self.re, rhs.im), RMul(self.im, rhs.re)))

Complex_mul(self, rhs) ==
    Complex_new(RSub(RMul(self.re, rhs.re), RMul(self.im, rhs.im)),
                RAdd(RMul(self.re, rhs.im), RMul(self.im, rhs.re)))

(***************************************************************************)
(* math/poly.rs: degree_bound and set_degree_bound, on usize bit sets.      *)
(***************************************************************************)
\* a - b of two usize values, a >= b: subtraction bit by bit with borrow
RECURSIVE SubBits(_, _, _, _)
SubBits(a, b, i, borrow) ==
    IF i >= UsizeBits THEN {}
    ELSE LET d == (IF i \in a THEN 1 ELSE 0) - (IF i \in b THEN 1 ELSE 0) - borrow
         IN (IF d % 2 = 1 THEN {i} ELSE {})
            \cup SubBits(a, b, i + 1, IF d < 0 THEN 1 ELSE 0)

\* usize::saturating_sub
saturating_sub(a, b) == IF Leq(a, b) THEN {} ELSE SubBits(a, b, 0, 0)

\* degree_bound without the all-zero test
Polynomial_degree_bound_len(coeff) ==
    LET n == Len(coeff)
    IN IF n = 0 THEN USIZE_MAX ELSE Bits(n - 1)

Polynomial_degree_bound(coeff) ==
    LET n == Len(coeff)
    IN IF n = 0 \/ \A i \in 1..n : coeff[i] = 0
       THEN USIZE_MAX
       ELSE Bits(n - 1)

\* coeff.iter().enumerate().rev().find(|(_, a)| a != zero), looking at the
\* indices below i: the last non-zero coefficient and its index, or None
RECURSIVE rfind_nonzero(_, _)
rfind_nonzero(coeff, i) ==
    IF i = 0 THEN [some |-> FALSE, idx |-> 0]
    ELSE IF coeff[i] # 0 THEN [some |-> TRUE, idx |-> i - 1]
    ELSE rfind_nonzero(coeff, i - 1)

\* the same search without rev(): the first non-zero coefficient
RECURSIVE find_nonzero(_, _)
find_nonzero(coeff, i) ==
    IF i >= Len(coeff) THEN [some |-> FALSE, idx |-> 0]
    ELSE IF coeff[i + 1] # 0 THEN [some |-> TRUE, idx |-> i]
    ELSE find_nonzero(coeff, i + 1)

\* degree that searches from the front
Polynomial_degree_first(coeff) ==
    LET found == find_nonzero(coeff, 0)
    IN IF found.some THEN Bits(found.idx) ELSE USIZE_MAX

\* degree that returns the count of coefficients up to the last non-zero one
Polynomial_degree_count(coeff) ==
    LET found == rfind_nonzero(coeff, Len(coeff))
    IN IF found.some THEN Bits(found.idx + 1) ELSE USIZE_MAX

Polynomial_degree(coeff) ==
    LET found == rfind_nonzero(coeff, Len(coeff))
    IN IF found.some THEN Bits(found.idx) ELSE USIZE_MAX

\* Vec::truncate
truncate(v, len) == IF len < Len(v) THEN SubSeq(v, 1, len) ELSE v

\* reduce that leaves an all-zero sequence as it is
Polynomial_reduce_keep(coeff) ==
    LET found == rfind_nonzero(coeff, Len(coeff))
    IN IF found.some THEN truncate(coeff, found.idx + 1) ELSE coeff

\* reduce that truncates to last_nonzero
Polynomial_reduce_short(coeff) ==
    LET found == rfind_nonzero(coeff, Len(coeff))
    IN IF found.some THEN truncate(coeff, found.idx) ELSE <<>>

\* reduce that spares one coefficient after the last non-zero one
Polynomial_reduce_spare(coeff) ==
    LET found == rfind_nonzero(coeff, Len(coeff))
    IN IF found.some THEN truncate(coeff, found.idx + 2) ELSE <<>>

\* the coefficients after reduce()
Polynomial_reduce(coeff) ==
    LET found == rfind_nonzero(coeff, Len(coeff))
    IN IF found.some THEN truncate(coeff, found.idx + 1) ELSE <<>>

\* (0..l - 1).rev().fold(coeff[l - 1], |acc, idx| coeff[idx] + x * acc), from
\* index idx down
RECURSIVE HornerFold(_, _, _, _)
HornerFold(coeff, x, acc, idx) ==
    IF idx < 0 THEN acc
    ELSE HornerFold(coeff, x, coeff[idx + 1] + x * acc, idx - 1)

\* the fold without rev(): from index idx up
RECURSIVE ForwardFold(_, _, _, _)
ForwardFold(coeff, x, acc, idx) ==
    IF idx >= Len(coeff) - 1 THEN acc
    ELSE ForwardFold(coeff, x, coeff[idx + 1] + x * acc, idx + 1)

Polynomial_eval_forward(coeff, x) ==
    LET l == Len(coeff)
    IN IF l = 0 THEN 0 ELSE ForwardFold(coeff, x, coeff[l], 0)

Polynomial_eval(coeff, x) ==
    LET l == Len(coeff)
    IN IF l = 0 THEN 0 ELSE HornerFold(coeff, x, coeff[l], l - 2)

\* set_degree_bound that measures against degree()
Polynomial_set_degree_bound_degree(coeff, n) ==
    LET add_to_len == saturating_sub(n, Polynomial_degree(coeff))
    IN coeff \o Zeros(Val(add_to_len))

\* set_degree_bound that measures against len() - 1, all-zero sequences included
Polynomial_set_degree_bound_len(coeff, n) ==
    LET add_to_len == saturating_sub(n, wrapping_dec(Bits(Len(coeff)), UsizeBits))
    IN coeff \o Zeros(Val(add_to_len))

\* set_degree_bound that appends ones
Polynomial_set_degree_bound_ones(coeff, n) ==
    LET add_to_len == saturating_sub(n, Polynomial_degree_bound(coeff))
    IN coeff \o [i \in 1..Val(add_to_len) |-> 1]

\* the coefficients after set_degree_bound(n)
Polynomial_set_degree_bound(coeff, n) ==
    LET add_to_len == saturating_sub(n, Polynomial_degree_bound(coeff))
    IN coeff \o Zeros(Val(add_to_len))

(***************************************************************************)
(* math/fft.rs. fft_recursive is run one activation at a time on an         *)
(* explicit call stack; an activation is                                    *)
(*   pc: "entry" (called), "wait_even" / "wait_odd" (inside the recursive   *)
(*       call on v_even / v_odd), "loop" (in the combining loop, before      *)
(*       iteration j),                                                      *)
(*   and the locals v, root_n, omega, v_even, v_odd, y_even, y_odd, j.       *)
(***************************************************************************)
COne == Complex_new(RInt(1), RZero)

Frame(v) == [pc |-> "entry", v |-> v, root_n |-> COne, omega |-> COne,
             v_even |-> <<>>, v_odd |-> <<>>,
             y_even |-> <<>>, y_odd |-> <<>>, j |-> 0]

\* the elements of v at even (parity 0) or odd (parity 1) indices of the code
SplitBy(v, parity) ==
    LET idx == {i \in 0..(Len(v) - 1) : i % 2 = parity}
    IN [k \in 1..Cardinality(idx) |-> v[2 * (k - 1) + parity + 1]]

\* the coefficients fft hands to fft_recursive: zero padding, if necessary
Padded(coeff) ==
    LET n2 == next_power_of_2(Bits(Len(coeff))).val
    IN IF n2 # Bits(Len(coeff))
       THEN Polynomial_set_degree_bound(coeff, wrapping_dec(n2, UsizeBits))
       ELSE coeff

\* fft, up to its call of fft_recursive
fft ==
    /\ fft_pc = "idle"
    /\ stack' = <<Frame(Complex_from_real_vec(Padded(fft_p)))>>
    /\ fft_pc' = "running"
    /\ UNCHANGED <<mutVars, cxVars, overflow_checks, npVars, polyVars, fft_p, fft_out>>

Top == stack[Len(stack)]

\* the activation on top returns val: to fft, or to the activation below,
\* which goes on to its call on v_odd or to its loop
Return(val) ==
    IF Len(stack) = 1
    THEN /\ fft_out' = val
         /\ fft_pc' = "done"
         /\ stack' = <<>>
    ELSE LET d == Len(stack) - 1
             caller == stack[d]
         IN /\ UNCHANGED <<fft_out, fft_pc>>
            /\ IF caller.pc = "wait_even"
               THEN stack' = [stack EXCEPT
                                ![d] = [caller EXCEPT !.y_even = val,
                                                      !.pc = "wait_odd"],
                                ![d + 1] = Frame(caller.v_odd)]
               ELSE stack' = [SubSeq(stack, 1, d) EXCEPT
                                ![d] = [caller EXCEPT !.y_odd = val,
                                                      !.pc = "loop",
                                                      !.j = 0]]

\* n == 1: return v
fft_recursive_base ==
    /\ fft_pc = "running"
    /\ Top.pc = "entry"
    /\ Len(Top.v) = 1
    /\ Return(Top.v)
    /\ UNCHANGED <<mutVars, cxVars, overflow_checks, npVars, polyVars, fft_p>>

\* n != 1: root_n, omega, the even/odd split, and the call on v_even; the
\* call exhausts the stack when MaxDepth activations are on it
fft_recursive_split ==
    /\ fft_pc = "running"
    /\ Top.pc = "entry"
    /\ Len(Top.v) # 1
    /\ LET d == Len(stack)
           f == [Top EXCEPT !.root_n = Complex_root_of_unity(Len(Top.v)),
                            !.omega = COne,
                            !.v_even = SplitBy(Top.v, 0),
                            !.v_odd = SplitBy(Top.v, 1),
                            !.pc = "wait_even"]
       IN IF d >= MaxDepth
          THEN /\ fft_pc' = "overflow"
               /\ stack' = [stack EXCEPT ![d] = f]
          ELSE /\ fft_pc' = fft_pc
               /\ stack' = Append([stack EXCEPT ![d] = f], Frame(f.v_even))
    /\ UNCHANGED <<mutVars, cxVars, overflow_checks, npVars, polyVars, fft_p, fft_out>>

\* one iteration of `for j in 0..n/2`
fft_recursive_loop ==
    /\ fft_pc = "running"
    /\ Top.pc = "loop"
    /\ Top.j < Len(Top.v) \div 2
    /\ LET f == Top
           n == Len(f.v)
           j == f.j
           t == Complex_mul(f.omega, f.y_odd[j + 1])
       IN stack' = [stack EXCEPT ![Len(stack)] =
                     [f EXCEPT !.v = [f.v EXCEPT
                                        ![j + 1] = Complex_add(f.y_even[j + 1], t),
                                        ![j + (n \div 2) + 1] =
                                            Complex_sub(f.y_even[j + 1], t)],
                               !.omega = Complex_mul(f.root_n, f.omega),
                               !.j = j + 1]]
    /\ UNCHANGED <<mutVars, cxVars, overflow_checks, npVars, polyVars, fft_p, fft_pc, fft_out>>

\* the loop is over: return v
fft_recursive_return ==
    /\ fft_pc = "running"
    /\ Top.pc = "loop"
    /\ Top.j >= Len(Top.v) \div 2
    /\ Return(Top.v)
    /\ UNCHANGED <<mutVars, cxVars, overflow_checks, npVars, polyVars, fft_p>>

(***************************************************************************)
(* Specification of fft: one polynomial is drawn and transformed.           *)
(***************************************************************************)
FftCoeffs == {0, 1, -2}

\* the polynomials of test::_fft
FftTestInputs == {<<0, 1, 3, 7>>, <<0, 1, 3, 7, 8>>,
                  <<1, 3, 4, 6, 7, 8, 0, 0>>}

FftInputs == SeqsUpTo(MaxLen, FftCoeffs) \cup FftTestInputs

InitFFT == /\ overflow_checks = TRUE
           /\ IdleNP
           /\ IdlePoly
           /\ IdleMut
           /\ IdleCx
           /\ fft_p \in FftInputs
           /\ fft_pc = "idle"
           /\ stack = <<>>
           /\ fft_out = <<>>

NextFFT == \/ fft
           \/ fft_recursive_base
           \/ fft_recursive_split
           \/ fft_recursive_loop
           \/ fft_recursive_return

SpecFFT == InitFFT /\ [][NextFFT]_vars

(***************************************************************************)
(* Specification of the methods of one polynomial: it is constructed, then  *)
(* any sequence of reduce, set_degree_bound, degree, degree_bound and eval  *)
(* is called on it.                                                         *)
(***************************************************************************)
\* the polynomials of the doc tests and of test::deg, test::eval, test::reduce
TestPolys == {<<1, 0, 2, 4, 0, 0>>, <<0, 0, 0, 0>>, <<5, 2, 0, 1>>,
              <<0, 3, 4, 0>>, <<1, 5, 0, 6, 7>>, <<2, 3, 5, 6>>, <<1, 0, 0>>}

\* the points of test::eval
EvalPoints == {-1, 0, 1, 2, 4}

InitMut == /\ overflow_checks = TRUE
           /\ IdleNP
           /\ IdlePoly
           /\ IdleFFT
           /\ IdleCx
           /\ m_orig \in PolyInputs \cup TestPolys
           /\ m_coeff = m_orig
           /\ m_prev = m_orig
           /\ m_op = "new"
           /\ m_prevop = "new"
           /\ m_n = {} /\ m_x = 0 /\ m_usize = {} /\ m_val = 0

\* what every method call records: the coefficients before it, and the call
\* before it
Called(name) ==
    /\ m_prev' = m_coeff
    /\ m_prevop' = m_op
    /\ m_op' = name
    /\ UNCHANGED <<m_orig, overflow_checks, npVars, polyVars, fftVars, cxVars>>

reduce ==
    /\ Called("reduce")
    /\ m_coeff' = Polynomial_reduce(m_coeff)
    /\ m_n' = {} /\ m_x' = 0 /\ m_usize' = {} /\ m_val' = 0

set_degree_bound ==
    \E n \in 0..MaxDegreeBound :
        /\ Called("set_degree_bound")
        /\ m_coeff' = Polynomial_set_degree_bound(m_coeff, Bits(n))
        /\ m_n' = Bits(n)
        /\ m_x' = 0 /\ m_usize' = {} /\ m_val' = 0

degree ==
    /\ Called("degree")
    /\ m_usize' = Polynomial_degree(m_coeff)
    /\ m_n' = {} /\ m_x' = 0 /\ m_val' = 0
    /\ UNCHANGED m_coeff

degree_bound ==
    /\ Called("degree_bound")
    /\ m_usize' = Polynomial_degree_bound(m_coeff)
    /\ m_n' = {} /\ m_x' = 0 /\ m_val' = 0
    /\ UNCHANGED m_coeff

eval ==
    \E x \in EvalPoints :
        /\ Called("eval")
        /\ m_val' = Polynomial_eval(m_coeff, x)
        /\ m_x' = x
        /\ m_n' = {} /\ m_usize' = {}
        /\ UNCHANGED m_coeff

NextMut == reduce \/ set_degree_bound \/ degree \/ degree_bound \/ eval

SpecMut == InitMut /\ [][NextMut]_vars

(***************************************************************************)
(* Specification of the complex operators over integer parts: two operands  *)
(* are drawn and one operator is applied to them.                           *)
(***************************************************************************)
Parts == (-MaxPart)..MaxPart

\* the operands of the doc tests of Complex::mul, Complex::sub and of the
\* product (3, 4) * (3, 4)
TestComplex == {<<3, 4>>, <<3, 5>>, <<6, 2>>, <<6, 7>>, <<7, 5>>}

ComplexInputs == {Complex_new(RInt(a), RInt(b)) : a, b \in Parts}
                 \cup {Complex_new(RInt(c[1]), RInt(c[2])) : c \in TestComplex}

InitCx == /\ overflow_checks = TRUE
          /\ IdleNP
          /\ IdlePoly
          /\ IdleFFT
          /\ IdleMut
          /\ z1 \in ComplexInputs
          /\ z2 \in ComplexInputs
          /\ z_res = Complex_new(RZero, RZero)
          /\ z_op = "none"

CxAdd == /\ z_op = "none"
         /\ z_res' = Complex_add(z1, z2)
         /\ z_op' = "add"
         /\ UNCHANGED <<z1, z2, overflow_checks, npVars, polyVars, fftVars, mutVars>>

CxSub == /\ z_op = "none"
         /\ z_res' = Complex_sub(z1, z2)
         /\ z_op' = "sub"
         /\ UNCHANGED <<z1, z2, overflow_checks, npVars, polyVars, fftVars, mutVars>>

CxMul == /\ z_op = "none"
         /\ z_res' = Complex_mul(z1, z2)
         /\ z_op' = "mul"
         /\ UNCHANGED <<z1, z2, overflow_checks, npVars, polyVars, fftVars, mutVars>>

NextCx == CxAdd \/ CxSub \/ CxMul

SpecCx == InitCx /\ [][NextCx]_vars

(***************************************************************************)
(* Oracles the properties are stated with.                                  *)
(***************************************************************************)
\* the complex number a + b*i of two integers
CInt(a, b) == Complex_new(RInt(a), RInt(b))

\* root_n^k, n >= 1: cos(-2*pi*k/n) + i*sin(-2*pi*k/n)
RootPow(k, n) == Complex_new(RCos(-k, n), RSin(-k, n))

\* the sum of coeff[i] * (root_n^j)^i over the indices i..Len(coeff)-1 of the
\* code: the polynomial evaluated at root_n^j, term by term
RECURSIVE DirectEval(_, _, _, _)
DirectEval(coeff, j, n, i) ==
    IF i >= Len(coeff) THEN CInt(0, 0)
    ELSE LET w == RootPow(i * j, n)
             c == RInt(coeff[i + 1])
         IN Complex_add(Complex_new(RMul(c, w.re), RMul(c, w.im)),
                        DirectEval(coeff, j, n, i + 1))

\* the evaluations of coeff at the n n-th roots of unity
Evaluations(coeff, n) == [k \in 1..n |-> DirectEval(coeff, k - 1, n, 0)]

IsPow2(n) == n >= 1 /\ CeilPow2(n, 1) = n

\* coefficient i (index of the code) of a polynomial, zero past its end
At(coeff, i) == IF i < Len(coeff) THEN coeff[i + 1] ELSE 0

AllZero(coeff) == \A i \in 1..Len(coeff) : coeff[i] = 0

RECURSIVE SumProducts(_, _, _, _)
SumProducts(I, a, b, k) ==
    IF I = {} THEN 0
    ELSE LET i == CHOOSE i \in I : TRUE
         IN a[i + 1] * b[k - i + 1] + SumProducts(I \ {i}, a, b, k)

\* the sum of a[i] * b[j] over the pairs with i + j = k
Convolution(a, b, k) ==
    SumProducts({i \in 0..(Len(a) - 1) : k - i >= 0 /\ k - i < Len(b)}, a, b, k)

(***************************************************************************)
(* Properties.                                                              *)
(***************************************************************************)
\* C1: for a polynomial whose coefficient count n is a power of two, fft
\* returns n values, the value at index j being the polynomial evaluated at
\* root_n^j; [0,1,3,7] gives (11,0), (-3,6), (-5,0), (-3,-6).
C1_FftEvaluatesAtRoots ==
    (fft_pc = "done" /\ IsPow2(Len(fft_p))) =>
        /\ fft_out = Evaluations(fft_p, Len(fft_p))
        /\ fft_p = <<0, 1, 3, 7>> =>
             fft_out = <<CInt(11, 0), CInt(-3, 6), CInt(-5, 0), CInt(-3, -6)>>

C1_Witness ==
    /\ fft_pc = "done"
    /\ fft_p = <<1, 3, 4, 6, 7, 8, 0, 0>>
    /\ Len(fft_out) = 8
    /\ fft_out[1] = CInt(29, 0)
    /\ fft_out[3] = CInt(4, -5)

\* C2: for a polynomial whose coefficient count is not a power of two, fft
\* returns the evaluations of the polynomial at the n2 n2-th roots of unity,
\* n2 the next power of two.
C2_FftPaddedEvaluatesAtRoots ==
    (fft_pc = "done" /\ ~IsPow2(Len(fft_p))) =>
        fft_out = Evaluations(fft_p, CeilPow2(Len(fft_p), 1))

\* C3: fft hands exactly n2 = next_power_of_2(len) coefficients to the
\* recursion and returns exactly n2 values, for every polynomial.
C3_FftLengthIsNextPowerOf2 ==
    /\ stack # <<>> => Len(stack[1].v) = CeilPow2(Len(fft_p), 1)
    /\ fft_pc = "done" => Len(fft_out) = CeilPow2(Len(fft_p), 1)

\* C4: a call of fft runs to completion. Stated so that a finite run refutes
\* it: every nested activation of fft_recursive works on a strictly shorter
\* sequence than its caller (so every branch reaches n == 1), and the call
\* stack is never exhausted.
C4_FftRunsToCompletion ==
    /\ fft_pc # "overflow"
    /\ \A i \in 2..Len(stack) : Len(stack[i].v) < Len(stack[i - 1].v)

\* C5: for every usize n, next_power_of_2(n) is a power of two, is >= n and
\* is the smallest such; it is 1 for 0 and n for a power of two.
C5_NextPowerOf2 ==
    np_pc = "done" =>
        /\ ~np_out.panicked
        /\ Cardinality(np_out.val) = 1
        /\ Leq(np_n, np_out.val)
        /\ \A k \in 0..(UsizeBits - 1) : Leq(np_n, {k}) => Leq(np_out.val, {k})
        /\ np_n = {} => np_out.val = {0}
        /\ Cardinality(np_n) = 1 => np_out.val = np_n

\* C6: p - q has the longer operand's length and coefficient p[i] - q[i] at
\* every index, a missing coefficient counting as zero.
C6_SubIsPointwise ==
    op = "sub" =>
        /\ Len(res) = Max2(Len(p), Len(q))
        /\ \A i \in 0..(Len(res) - 1) : res[i + 1] = At(p, i) - At(q, i)

\* C7: p + q has the longer operand's length and coefficient p[i] + q[i] at
\* every index, a missing coefficient counting as zero.
C7_AddIsPointwise ==
    op = "add" =>
        /\ Len(res) = Max2(Len(p), Len(q))
        /\ \A i \in 0..(Len(res) - 1) : res[i + 1] = At(p, i) + At(q, i)

C7_Witness ==
    /\ op = "add"
    /\ Len(p) < Len(q)
    /\ p # <<>>
    /\ q[Len(q)] # 0
    /\ res[Len(res)] = q[Len(q)]

\* C8, as claimed: the product of any polynomial with a zero polynomial, empty
\* or all zeros, in either order, is the empty polynomial.
C8_ZeroAnnihilation ==
    (op = "mul" /\ (AllZero(p) \/ AllZero(q))) => res = <<>>

\* C8, amended: the product with the empty polynomial, in either order, is the
\* empty polynomial; the product of two non-empty operands one of which is
\* all zeros is the all-zero sequence of length len(p) + len(q) - 1.
C8_ZeroAnnihilationAmended ==
    op = "mul" =>
        /\ (p = <<>> \/ q = <<>>) => res = <<>>
        /\ (p # <<>> /\ q # <<>> /\ (AllZero(p) \/ AllZero(q))) =>
              res = Zeros(Len(p) + Len(q) - 1)

C8_Witness ==
    /\ op = "mul"
    /\ p = <<2, -1>>
    /\ q = <<>>
    /\ res = <<>>

\* C9: for non-empty a and b, a * b has length len(a) + len(b) - 1 and its
\* coefficient at k is the sum of a[i] * b[j] over i + j = k;
\* [0,3,5] * [4,7,8] = [0,12,41,59,40].
C9_MulIsConvolution ==
    (op = "mul" /\ p # <<>> /\ q # <<>>) =>
        /\ Len(res) = Len(p) + Len(q) - 1
        /\ \A k \in 0..(Len(res) - 1) : res[k + 1] = Convolution(p, q, k)
        /\ (p = <<0, 3, 5>> /\ q = <<4, 7, 8>>) => res = <<0, 12, 41, 59, 40>>

C9_Witness ==
    /\ op = "mul"
    /\ p = <<0, 3, 5>>
    /\ q = <<4, 7, 8>>
    /\ res = <<0, 12, 41, 59, 40>>

\* C10: p * q = q * p as coefficient sequences, for all operands.
C10_MulCommutes ==
    op = "mul" => res = Polynomial_mul(q, p)

C10_Witness ==
    /\ op = "mul"
    /\ p = <<5, 0, 10, 6>>
    /\ q = <<1, 2, 4>>
    /\ res = <<5, 10, 30, 26, 52, 24>>

\* C11: p + q = q + p as coefficient sequences, for all operands.
C11_AddCommutes ==
    op = "add" => res = Polynomial_add(q, p)

C11_Witness ==
    /\ op = "add"
    /\ p = <<5, 0, 10, 6>>
    /\ q = <<1, 2, 4>>
    /\ res = <<6, 2, 14, 6>>

RECURSIVE IntPow(_, _)
IntPow(x, i) == IF i = 0 THEN 1 ELSE x * IntPow(x, i - 1)

\* the sum of coeff[i] * x^i over the indices i and above
RECURSIVE PowerSum(_, _, _)
PowerSum(coeff, x, i) ==
    IF i >= Len(coeff) THEN 0
    ELSE coeff[i + 1] * IntPow(x, i) + PowerSum(coeff, x, i + 1)

\* the positions (from 1) of the non-zero coefficients
NonZero(coeff) == {i \in 1..Len(coeff) : coeff[i] # 0}

\* the integer a real with an integer value stands for
IntOf(r) == Coef(r.t, 0)

\* C12: eval(x) is the sum of coeff[i] * x^i; the empty polynomial evaluates
\* to zero and a single coefficient to itself ([2,3,5,6] at 4 is 478).
C12_EvalIsPowerSum ==
    m_op = "eval" =>
        /\ m_val = PowerSum(m_coeff, m_x, 0)
        /\ m_coeff = <<>> => m_val = 0
        /\ Len(m_coeff) = 1 => m_val = m_coeff[1]
        /\ (m_coeff = <<2, 3, 5, 6>> /\ m_x = 4) => m_val = 478

C12_Witness ==
    /\ m_op = "eval"
    /\ m_coeff = <<2, 3, 5, 6>>
    /\ m_x = 4
    /\ m_val = 478

\* C13: set_degree_bound(n) leaves coeff unchanged when n <= degree_bound();
\* otherwise it appends exactly n - degree_bound() zeros, after which
\* degree_bound() = n, len(coeff) = n + 1 and the old coefficients are in place.
C13_SetDegreeBound ==
    m_op = "set_degree_bound" =>
        LET db == Polynomial_degree_bound(m_prev)
        IN IF Leq(m_n, db)
           THEN m_coeff = m_prev
           ELSE /\ Len(m_coeff) = Val(m_n) + 1
                /\ Len(m_coeff) - Len(m_prev) = Val(m_n) - Val(db)
                /\ SubSeq(m_coeff, 1, Len(m_prev)) = m_prev
                /\ \A i \in (Len(m_prev) + 1)..Len(m_coeff) : m_coeff[i] = 0
                /\ Polynomial_degree_bound(m_coeff) = m_n

C13_Witness ==
    /\ m_op = "set_degree_bound"
    /\ m_prev = <<5, 2, 0, 1>>
    /\ m_n = Bits(4)
    /\ m_coeff = <<5, 2, 0, 1, 0>>

\* C14: reduce() keeps exactly the prefix up to the last non-zero coefficient,
\* and empties the sequence when there is none; afterwards the sequence is
\* empty or ends in a non-zero coefficient.
C14_ReduceTruncates ==
    m_op = "reduce" =>
        LET nz == NonZero(m_prev)
            k  == IF nz = {} THEN 0 ELSE SetMax(nz)
        IN /\ m_coeff = SubSeq(m_prev, 1, k)
           /\ m_coeff = <<>> \/ m_coeff[Len(m_coeff)] # 0

C14_Witness ==
    /\ m_op = "reduce"
    /\ m_prev = <<1, 0, 2, 4, 0, 0>>
    /\ m_coeff = <<1, 0, 2, 4>>

\* C15: a second reduce() right after a reduce() changes nothing.
C15_ReduceIdempotent ==
    (m_op = "reduce" /\ m_prevop = "reduce") => m_coeff = m_prev

C15_Witness ==
    /\ m_op = "reduce"
    /\ m_prevop = "reduce"
    /\ m_orig = <<1, 0, 2, 4, 0, 0>>
    /\ m_coeff = <<1, 0, 2, 4>>

\* C16: degree_bound() is len(coeff) - 1 for a non-empty sequence with a
\* non-zero entry, and usize::MAX exactly when coeff is empty or all zeros.
C16_DegreeBound ==
    m_op = "degree_bound" =>
        /\ (m_coeff # <<>> /\ ~AllZero(m_coeff)) =>
              m_usize = Bits(Len(m_coeff) - 1)
        /\ m_usize = USIZE_MAX <=> (m_coeff = <<>> \/ AllZero(m_coeff))

C16_Witness ==
    /\ m_op = "degree_bound"
    /\ m_coeff = <<0, 0, 0, 0>>
    /\ m_usize = USIZE_MAX

\* C17: degree() is the index of the last non-zero coefficient, and
\* usize::MAX exactly when there is none.
C17_Degree ==
    m_op = "degree" =>
        /\ NonZero(m_coeff) # {} =>
              m_usize = Bits(SetMax(NonZero(m_coeff)) - 1)
        /\ m_usize = USIZE_MAX <=> NonZero(m_coeff) = {}

C17_Witness ==
    /\ m_op = "degree"
    /\ m_coeff = <<0, 3, 4, 0>>
    /\ m_usize = Bits(2)

\* C18: after new and any sequence of reduce and set_degree_bound calls,
\* degree() <= degree_bound() whenever neither is usize::MAX.
C18_DegreeLeqDegreeBound ==
    LET d == Polynomial_degree(m_coeff)
        b == Polynomial_degree_bound(m_coeff)
    IN (d # USIZE_MAX /\ b # USIZE_MAX) => Leq(d, b)

C18_Witness ==
    /\ m_op = "set_degree_bound"
    /\ m_prevop = "reduce"
    /\ m_orig = <<0, 3, 4, 0>>
    /\ Polynomial_degree(m_coeff) = Bits(2)
    /\ Polynomial_degree_bound(m_coeff) = Bits(4)

\* C19: (a, b) * (c, d) = (a*c - b*d, a*d + b*c) for integers a, b, c, d,
\* equality being component-wise; (3, 4) * (3, 4) = (-7, 24).
C19_ComplexMul ==
    z_op = "mul" =>
        LET a == IntOf(z1.re)
            b == IntOf(z1.im)
            c == IntOf(z2.re)
            d == IntOf(z2.im)
        IN /\ z_res.re = RInt(a * c - b * d)
           /\ z_res.im = RInt(a * d + b * c)
           /\ (z1 = CInt(3, 4) /\ z2 = CInt(3, 4)) => z_res = CInt(-7, 24)

C19_Witness ==
    /\ z_op = "mul"
    /\ z1 = CInt(3, 4)
    /\ z2 = CInt(3, 4)
    /\ z_res = CInt(-7, 24)

\* C20: every activation of fft_recursive works on a sequence whose length is
\* a power of two >= 1, and every activation past the base case has split it
\* into halves of exactly n/2 elements.
C20_RecursionOnPowersOfTwo ==
    \A i \in 1..Len(stack) :
        LET f == stack[i]
            n == Len(f.v)
        IN /\ IsPow2(n)
           /\ f.pc # "entry" =>
                /\ Len(f.v_even) = n \div 2
                /\ Len(f.v_odd) = n \div 2

\* the product omega^k * b for omega the principal n-th root of unity, by the
\* formula of the complex product
TwiddleTimes(k, n, b) ==
    LET w == RootPow(k, n)
    IN Complex_new(RSub(RMul(w.re, b.re), RMul(w.im, b.im)),
                   RAdd(RMul(w.re, b.im), RMul(w.im, b.re)))

\* the element the activation f received at index i (from 0), which its
\* even/odd split still holds
Received(f, i) ==
    IF i % 2 = 0 THEN f.v_even[(i \div 2) + 1] ELSE f.v_odd[(i \div 2) + 1]

\* C21: in the combining loop of an activation of power-of-two length n >= 2,
\* before iteration j omega is root_n^j, the iterations k < j have written
\* y_even[k] + omega^k * y_odd[k] at index k and y_even[k] - omega^k * y_odd[k]
\* at index k + n/2, and no other index has been written; after the last
\* iteration (j = n/2) all n indices have been written, each once.
C21_CombineLoop ==
    \A d \in 1..Len(stack) :
        LET f == stack[d]
            n == Len(f.v)
            h == n \div 2
        IN (f.pc = "loop" /\ IsPow2(n) /\ n >= 2) =>
              /\ f.j \in 0..h
              /\ f.root_n = RootPow(1, n)
              /\ f.omega = RootPow(f.j, n)
              /\ \A k \in 0..(h - 1) :
                    LET t == TwiddleTimes(k, n, f.y_odd[k + 1])
                        a == f.y_even[k + 1]
                    IN IF k < f.j
                       THEN /\ f.v[k + 1] =
                                 Complex_new(RAdd(a.re, t.re), RAdd(a.im, t.im))
                            /\ f.v[k + h + 1] =
                                 Complex_new(RSub(a.re, t.re), RSub(a.im, t.im))
                       ELSE /\ f.v[k + 1] = Received(f, k)
                            /\ f.v[k + h + 1] = Received(f, k + h)

C21_Witness ==
    /\ fft_pc = "running"
    /\ fft_p = <<0, 1, 3, 7>>
    /\ Len(stack) = 1
    /\ Top.pc = "loop"
    /\ Top.j = 2
    /\ Top.omega = CInt(-1, 0)
    /\ Top.y_even = <<CInt(3, 0), CInt(-3, 0)>>
    /\ Top.y_odd = <<CInt(8, 0), CInt(-6, 0)>>
    /\ Top.v = <<CInt(11, 0), CInt(-3, 6), CInt(-5, 0), CInt(-3, -6)>>

\* C22: on an empty or all-zero coefficient sequence set_degree_bound(n)
\* appends nothing, whatever n is: the saturating difference of n and the
\* usize::MAX sentinel is 0, for the largest n too, and nothing underflows.
C22_SentinelAppendsNothing ==
    (m_op = "set_degree_bound" /\ (m_prev = <<>> \/ AllZero(m_prev))) =>
        LET db == Polynomial_degree_bound(m_prev)
        IN /\ db = USIZE_MAX
           /\ saturating_sub(m_n, db) = {}
           /\ saturating_sub(USIZE_MAX, db) = {}
           /\ \A k \in 0..(UsizeBits - 1) : saturating_sub({k}, db) = {}
           /\ m_coeff = m_prev

C22_Witness ==
    /\ m_op = "set_degree_bound"
    /\ m_prev = <<0, 0, 0, 0>>
    /\ m_n = Bits(MaxDegreeBound)
    /\ m_coeff = <<0, 0, 0, 0>>

\* C23: next_power_of_2 neither overflows nor underflows on any usize n: it
\* does not panic, and where it shifts, leading_zeros(n) - 1 is non-negative
\* and the shift amount is below the word width.
C23_NoUnderflow ==
    np_pc = "done" =>
        /\ ~np_out.panicked
        /\ (np_n # {} /\ (np_n \cap wrapping_dec(np_n, UsizeBits)) # {}) =>
              /\ leading_zeros(np_n) >= 1
              /\ leading_zeros(np_n) - 1 \in 0..(UsizeBits - 1)

\* the coefficients without their trailing zeros
Canonical(coeff) ==
    IF NonZero(coeff) = {} THEN <<>> ELSE SubSeq(coeff, 1, SetMax(NonZero(coeff)))

\* C24: after any sequence of reduce and set_degree_bound calls the polynomial
\* is the one constructed: the same canonical form, the same degree() and the
\* same eval(x) at every x.
C24_CallsKeepThePolynomial ==
    /\ Canonical(m_coeff) = Canonical(m_orig)
    /\ Polynomial_degree(m_coeff) = Polynomial_degree(m_orig)
    /\ \A x \in EvalPoints :
          Polynomial_eval(m_coeff, x) = Polynomial_eval(m_orig, x)

C24_Witness ==
    /\ m_op = "reduce"
    /\ m_prevop = "set_degree_bound"
    /\ m_orig = <<0, 3, 4, 0>>
    /\ m_prev = <<0, 3, 4, 0, 0>>
    /\ m_coeff = <<0, 3, 4>>

\* C25: (p * q).eval(x) = p.eval(x) * q.eval(x) for all integer polynomials
\* p, q, empty ones included, and every integer x.
C25_EvalIsMultiplicative ==
    op = "mul" =>
        \A x \in EvalPoints :
            Polynomial_eval(res, x) = Polynomial_eval(p, x) * Polynomial_eval(q, x)

C25_Witness ==
    /\ op = "mul"
    /\ p = <<0, 3, 5>>
    /\ q = <<4, 7, 8>>
    /\ Polynomial_eval(res, 2) = 1300
    /\ Polynomial_eval(p, 2) = 26
    /\ Polynomial_eval(q, 2) = 50

\* C26: right after reduce(), degree() = degree_bound(): both are
\* len(coeff) - 1 when the sequence is non-empty and both are usize::MAX
\* when it is empty.
C26_ReducedDegreeIsDegreeBound ==
    m_op = "reduce" =>
        LET d == Polynomial_degree(m_coeff)
            b == Polynomial_degree_bound(m_coeff)
        IN /\ d = b
           /\ m_coeff # <<>> => d = Bits(Len(m_coeff) - 1)
           /\ m_coeff = <<>> => d = USIZE_MAX

C26_Witness ==
    /\ m_op = "reduce"
    /\ m_prev = <<5, 2, 0, 1, 0>>
    /\ m_coeff = <<5, 2, 0, 1>>
    /\ Polynomial_degree(m_coeff) = Bits(3)
    /\ Polynomial_degree_bound(m_coeff) = Bits(3)

====
